---- MODULE Spec2Model ----
(***************************************************************************)
(* friggdb/backend/gcs/gcs.go: the object-store backed block backend.      *)
(*                                                                         *)
(* Strings that name objects are modelled as sequences of path segments    *)
(* (the text between "/" delimiters); byte slices as sequences of small    *)
(* integers.  The bucket is the variable store, a function from object     *)
(* names to their committed bytes.  A storage.Writer commits its content   *)
(* when it is closed, and only if Close succeeds.                          *)
(***************************************************************************)
EXTENDS Integers, Sequences, FiniteSets, TLC

VARIABLES store, wr, cancelled, ls, rd

vars == <<store, wr, cancelled, ls, rd>>

(***************************************************************************)
(* Bounds and input domains                                                *)
(***************************************************************************)
\* longest payload / destination buffer of the ranged-read specification
MaxLen == 3
\* most transient failures one listing stream reports
MaxErrs == 1

Writers == {"w1", "w2"}
\* tenant ids handed to Write; none contains the delimiter
TenantIDs == {"a", "", "."}
BlockIDs == {1, 2}
Versions == {1, 2}

(***************************************************************************)
(* KeyScheme                                                               *)
(***************************************************************************)
\* uuid.UUID.String(): the canonical text form of a block id
UUIDString(id) == IF id = 1 THEN "u1" ELSE "u2"

\* the forms uuid.Parse accepts for one id: canonical and urn-prefixed
UUIDForms(id) == {UUIDString(id), IF id = 1 THEN "urn:uuid:u1" ELSE "urn:uuid:u2"}

\* uuid.Parse: ok and the id when the text is one of the accepted forms
uuidParse(s) ==
  IF \E id \in BlockIDs : s \in UUIDForms(id)
  THEN [ok |-> TRUE, id |-> CHOOSE id \in BlockIDs : s \in UUIDForms(id)]
  ELSE [ok |-> FALSE, id |-> 0]

KeptSegment(s) == s \notin {"", "."}

\* path.Join: joins with "/" and cleans, which drops empty and "." elements
pathJoin(a, b) == SelectSeq(a \o b, KeptSegment)

rootPath(blockID, tenantID) == pathJoin(<<tenantID>>, <<UUIDString(blockID)>>)

metaFileName(blockID, tenantID) == pathJoin(rootPath(blockID, tenantID), <<"meta.json">>)

bloomFileName(blockID, tenantID) == pathJoin(rootPath(blockID, tenantID), <<"bloom">>)

indexFileName(blockID, tenantID) == pathJoin(rootPath(blockID, tenantID), <<"index">>)

objectFileName(blockID, tenantID) == pathJoin(rootPath(blockID, tenantID), <<"data">>)

(***************************************************************************)
(* Bucket                                                                  *)
(***************************************************************************)
Exists(name) == name \in DOMAIN store

\* the bucket after an object's writer has been closed successfully
Commit(s, name, b) == [k \in (DOMAIN s) \cup {name} |-> IF k = name THEN b ELSE s[k]]

EmptyStore == [k \in {} |-> <<>>]

(***************************************************************************)
(* json.Marshal / json.Unmarshal of a block meta                           *)
(***************************************************************************)
\* the wire form: the descriptor between braces (123 = "{", 125 = "}")
jsonMarshal(meta) == <<123, meta, 125>>

jsonUnmarshal(bytes) ==
  IF Len(bytes) = 3 /\ bytes[1] = 123 /\ bytes[3] = 125
  THEN [err |-> "nil", meta |-> bytes[2]]
  ELSE [err |-> "ErrUnmarshal", meta |-> 0]

(***************************************************************************)
(* Write                                                                   *)
(***************************************************************************)
IdleWriter ==
  [pc |-> "idle", tenantID |-> "a", blockID |-> 1, bBloom |-> <<>>, bIndex |-> <<>>,
   meta |-> 0, payload |-> <<>>, srcState |-> "ok", err |-> "nil",
   dataW |-> "none", dataBuf |-> <<>>, committed |-> {}]

\* the contents handed to a Write: all four differ between two versions
InBloom(v) == <<v>>

InIndex(v) == <<v, v>>

InPayload(v) == IF v = 1 THEN <<1>> ELSE <<2, 1>>

\* a caller invokes Write(ctx, blockID, tenantID, meta, bBloom, bIndex, objectFilePath)
WriteCall(w) ==
  /\ wr[w].pc = "idle"
  /\ \E t \in TenantIDs, b \in BlockIDs, v \in Versions, s \in {"ok", "missing", "unreadable"} :
       wr' = [wr EXCEPT ![w] = [IdleWriter EXCEPT !.pc = "bloom", !.tenantID = t,
                                   !.blockID = b, !.bBloom = InBloom(v),
                                   !.bIndex = InIndex(v), !.meta = v,
                                   !.payload = InPayload(v), !.srcState = s]]
  /\ UNCHANGED <<store, cancelled, ls, rd>>

\* what a storage.Writer can do with a Write followed by a Close; a cancelled
\* context lets no upload through
WriterOutcomes == IF cancelled THEN {"writeErr", "closeErr"} ELSE {"ok", "writeErr", "closeErr"}

\* writeAll's return value: the error of w.Write; the deferred Close's is dropped
writeAllErr(outcome) == IF outcome = "writeErr" THEN "ErrWrite" ELSE "nil"

\* writeAll(ctx, name, b) as run for component comp of writer w, continuing at
\* pc next when it returns nil and at pc onErr otherwise
writeAll(w, comp, name, b, next, onErr) ==
  \E outcome \in WriterOutcomes :
    /\ store' = IF outcome = "ok" THEN Commit(store, name, b) ELSE store
    /\ wr' = [wr EXCEPT ![w].err = writeAllErr(outcome),
                        ![w].pc = IF writeAllErr(outcome) = "nil" THEN next ELSE onErr,
                        ![w].committed = IF outcome = "ok" THEN @ \cup {comp} ELSE @]

WriteBloom(w) ==
  /\ wr[w].pc = "bloom"
  /\ writeAll(w, "bloom", bloomFileName(wr[w].blockID, wr[w].tenantID), wr[w].bBloom,
              "index", "done")
  /\ UNCHANGED <<cancelled, ls, rd>>

WriteIndex(w) ==
  /\ wr[w].pc = "index"
  /\ writeAll(w, "index", indexFileName(wr[w].blockID, wr[w].tenantID), wr[w].bIndex,
              "source", "done")
  /\ UNCHANGED <<cancelled, ls, rd>>

\* fileExists: os.Stat does not report IsNotExist
fileExists(srcState) == srcState # "missing"

\* os.Open wrongly taken to succeed on every path
osOpenAny(srcState) == TRUE

\* os.Open succeeds
osOpen(srcState) == srcState = "ok"

\* the source check, os.Open and rw.writer of the copy step
WriteSource(w) ==
  /\ wr[w].pc = "source"
  /\ wr' = [wr EXCEPT ![w] =
       IF ~fileExists(wr[w].srcState)
       THEN [@ EXCEPT !.err = "ErrObjectFileNotFound", !.pc = "done"]
       ELSE IF ~osOpen(wr[w].srcState)
       THEN [@ EXCEPT !.err = "ErrOpen", !.pc = "done"]
       ELSE [@ EXCEPT !.pc = "copy", !.dataW = "open", !.dataBuf = <<>>]]
  /\ UNCHANGED <<store, cancelled, ls, rd>>

\* io.Copy(w, src): all of the payload reaches the writer, or the copy stops with
\* an error after k bytes because the source fails (the writer stays usable) or
\* because the writer fails
WriteCopy(w) ==
  /\ wr[w].pc = "copy"
  /\ \/ wr' = [wr EXCEPT ![w].dataBuf = wr[w].payload, ![w].pc = "meta"]
     \/ \E k \in 0..(Len(wr[w].payload) - 1) :
          wr' = [wr EXCEPT ![w].dataBuf = SubSeq(wr[w].payload, 1, k),
                           ![w].err = "ErrCopy", ![w].pc = "closeData"]
     \/ wr' = [wr EXCEPT ![w].dataW = "broken", ![w].err = "ErrCopy", ![w].pc = "closeData"]
  /\ UNCHANGED <<store, cancelled, ls, rd>>

\* json.Marshal(meta) and writeAll of the meta object
WriteMeta(w) ==
  /\ wr[w].pc = "meta"
  /\ writeAll(w, "meta", metaFileName(wr[w].blockID, wr[w].tenantID),
              jsonMarshal(wr[w].meta), "closeData", "closeData")
  /\ UNCHANGED <<cancelled, ls, rd>>

\* the deferred w.Close() of the data writer, run when Write returns; its error
\* is dropped
WriteCloseData(w) ==
  /\ wr[w].pc = "closeData"
  /\ \E ok \in IF wr[w].dataW = "open" /\ ~cancelled THEN {TRUE, FALSE} ELSE {FALSE} :
       /\ store' = IF ok
                   THEN Commit(store, objectFileName(wr[w].blockID, wr[w].tenantID),
                               wr[w].dataBuf)
                   ELSE store
       /\ wr' = [wr EXCEPT ![w].pc = "done", ![w].dataW = "closed",
                           ![w].committed = IF ok THEN @ \cup {"data"} ELSE @]
  /\ UNCHANGED <<cancelled, ls, rd>>


(***************************************************************************)
(* Whole-object reads                                                      *)
(***************************************************************************)
\* readAll: NewReader fails on a missing object, else all bytes of the object
readAll(name) ==
  IF Exists(name) THEN [err |-> "nil", bytes |-> store[name]]
  ELSE [err |-> "ErrObjectNotExist", bytes |-> <<>>]

Bloom(blockID, tenantID) == readAll(bloomFileName(blockID, tenantID))

Index(blockID, tenantID) == readAll(indexFileName(blockID, tenantID))

\* BlockMeta that hands out whatever was read as a meta
BlockMetaUnchecked(blockID, tenantID) ==
  LET r == readAll(metaFileName(blockID, tenantID))
  IN [err |-> "nil", meta |-> IF Len(r.bytes) >= 2 THEN r.bytes[2] ELSE 1]

\* BlockMeta: the read error, else the outcome of json.Unmarshal
BlockMeta(blockID, tenantID) ==
  LET r == readAll(metaFileName(blockID, tenantID))
  IN IF r.err # "nil" THEN [err |-> r.err, meta |-> 0] ELSE jsonUnmarshal(r.bytes)

(***************************************************************************)
(* Tenants and Blocks                                                      *)
(***************************************************************************)
NoError == [kind |-> "nil", text |-> "", n |-> 0]

\* the error the n-th failing iter.Next() of a listing returns
ListError(n) == [kind |-> "ErrList", text |-> "", n |-> n]

\* fmt.Errorf("failed parse on blockID %s: %v", idString, err)
ParseError(idString) == [kind |-> "ErrParse", text |-> idString, n |-> 0]

HasPrefix(k, prefix) == Len(k) >= Len(prefix) /\ SubSeq(k, 1, Len(prefix)) = prefix

\* bucket.Objects with Query{Prefix: prefix + "/", Delimiter: "/"}: one entry
\* with Prefix set per distinct next-level "directory" below the prefix, and one
\* entry with Name set and an empty Prefix per object directly below it
Objects(prefix) ==
  {[Prefix |-> SubSeq(k, 1, Len(prefix) + 1), Name |-> <<>>] :
     k \in {x \in DOMAIN store : HasPrefix(x, prefix) /\ Len(x) > Len(prefix) + 1}}
  \cup
  {[Prefix |-> <<>>, Name |-> k] :
     k \in {x \in DOMAIN store : HasPrefix(x, prefix) /\ Len(x) = Len(prefix) + 1}}

\* strings.TrimSuffix(strings.TrimPrefix(s, prefix + "/"), "/") of a listed
\* Prefix s: what follows the prefix, without the delimiters; "" stays ""
trimPrefixSuffix(s, prefix) ==
  LET rest == IF s # <<>> /\ HasPrefix(s, prefix) THEN SubSeq(s, Len(prefix) + 1, Len(s)) ELSE s
  IN IF rest = <<>> THEN "" ELSE rest[1]

IdleLister ==
  [pc |-> "idle", op |-> "", tenantID |-> "", pending |-> {}, sticky |-> FALSE, errs |-> 0,
   calls |-> 0, tenants |-> <<>>, blocks |-> <<>>, warning |-> NoError, seen |-> <<>>]

\* what one iter.Next() delivered: an entry, or its n-th error
EntryEvent(attrs) == [n |-> 0, attrs |-> attrs]

ErrorEvent(n) == [n |-> n, attrs |-> [Prefix |-> <<>>, Name |-> <<>>]]

\* tenant ids handed to Blocks
ListTenantIDs == {"a", "b", "c"}

\* Tenants(): the iterator over the root of the bucket is created
TenantsCall ==
  /\ ls.pc = "idle"
  /\ ls' = [IdleLister EXCEPT !.pc = "tenants", !.op = "Tenants", !.pending = Objects(<<>>)]
  /\ UNCHANGED <<store, wr, cancelled, rd>>

\* Blocks(tenantID): the iterator over tenantID + "/" is created
BlocksCall ==
  /\ ls.pc = "idle"
  /\ \E t \in ListTenantIDs :
       ls' = [IdleLister EXCEPT !.pc = "blocks", !.op = "Blocks", !.tenantID = t,
                                !.pending = Objects(<<t>>)]
  /\ UNCHANGED <<store, wr, cancelled, rd>>

\* the loop body of Tenants for a listed entry
tenantsEntry(l, attrs) ==
  [l EXCEPT !.tenants = Append(@, trimPrefixSuffix(attrs.Prefix, <<>>))]

\* the loop body of Blocks that lets a parsed entry clear the warning
blocksEntryClearing(l, attrs) ==
  LET idString == trimPrefixSuffix(attrs.Prefix, <<l.tenantID>>)
      parsed == uuidParse(idString)
  IN IF ~parsed.ok THEN [l EXCEPT !.warning = ParseError(idString)]
     ELSE [l EXCEPT !.blocks = Append(@, parsed.id), !.warning = NoError]

\* the loop body of Blocks that keeps the first warning of the call
blocksEntryFirstWins(l, attrs) ==
  LET idString == trimPrefixSuffix(attrs.Prefix, <<l.tenantID>>)
      parsed == uuidParse(idString)
  IN IF ~parsed.ok THEN [l EXCEPT !.warning = IF @ = NoError THEN ParseError(idString) ELSE @]
     ELSE [l EXCEPT !.blocks = Append(@, parsed.id)]

\* the loop body of Blocks for a listed entry
blocksEntry(l, attrs) ==
  LET idString == trimPrefixSuffix(attrs.Prefix, <<l.tenantID>>)
      parsed == uuidParse(idString)
  IN IF ~parsed.ok THEN [l EXCEPT !.warning = ParseError(idString)]
     ELSE [l EXCEPT !.blocks = Append(@, parsed.id)]

\* what the running call does with a listed entry
loopBody(l, attrs) == IF l.op = "Tenants" THEN tenantsEntry(l, attrs) ELSE blocksEntry(l, attrs)

\* one pass of the for loop of Tenants or Blocks: iter.Next() and what the loop
\* does with its result.  Next yields an entry, or iterator.Done after the last
\* one, or an error: one that passes (at most MaxErrs of them) or one that Next
\* repeats on every later call.  calls is the parity of the Next calls made,
\* seen the entries and errors Next has delivered, in order (a repeated error
\* is recorded once).
ListNext ==
  LET l == [ls EXCEPT !.calls = 1 - @]
  IN \/ /\ ~ls.sticky
        /\ ls.pending = {}
        /\ ls' = [l EXCEPT !.pc = "done"]
     \/ /\ ~ls.sticky
        /\ \E attrs \in ls.pending :
             ls' = loopBody([l EXCEPT !.pending = @ \ {attrs},
                                      !.seen = Append(@, EntryEvent(attrs))], attrs)
     \/ /\ ~ls.sticky
        /\ ls.errs < MaxErrs
        /\ ls' = [l EXCEPT !.errs = @ + 1, !.warning = ListError(ls.errs + 1),
                           !.seen = Append(@, ErrorEvent(ls.errs + 1))]
     \/ /\ ~ls.sticky
        /\ ls' = [l EXCEPT !.sticky = TRUE, !.warning = ListError(ls.errs + 1),
                           !.seen = Append(@, ErrorEvent(ls.errs + 1))]
     \/ /\ ls.sticky
        /\ ls' = [l EXCEPT !.warning = ListError(ls.errs + 1)]

TenantsNext ==
  /\ ls.pc = "tenants"
  /\ ListNext
  /\ UNCHANGED <<store, wr, cancelled, rd>>

BlocksNext ==
  /\ ls.pc = "blocks"
  /\ ListNext
  /\ UNCHANGED <<store, wr, cancelled, rd>>

(***************************************************************************)
(* Object: the ranged read                                                 *)
(***************************************************************************)
IdleReader ==
  [pc |-> "idle", op |-> "", blockID |-> 1, tenantID |-> "a", start |-> 0, buffer |-> <<>>,
   stream |-> <<>>, totalBytes |-> 0, reads |-> 0, err |-> "nil", fault |-> FALSE,
   meta |-> 0, bytes |-> <<>>]

\* a whole-object read of a call: what readAll gives, or the error of a store
\* that fails while an object that exists is read
readAllCall(r, result, ioOk) ==
  IF ~ioOk /\ result.err = "nil"
  THEN [r EXCEPT !.pc = "done", !.err = "ErrIO", !.fault = TRUE]
  ELSE [r EXCEPT !.pc = "done", !.err = result.err, !.bytes = result.bytes]

\* a call of Bloom(blockID, tenantID)
BloomCall ==
  /\ rd.pc = "idle"
  /\ \E b \in BlockIDs, ioOk \in BOOLEAN :
       rd' = readAllCall([IdleReader EXCEPT !.op = "Bloom", !.blockID = b], Bloom(b, "a"), ioOk)
  /\ UNCHANGED <<store, wr, cancelled, ls>>

\* a call of Index(blockID, tenantID)
IndexCall ==
  /\ rd.pc = "idle"
  /\ \E b \in BlockIDs, ioOk \in BOOLEAN :
       rd' = readAllCall([IdleReader EXCEPT !.op = "Index", !.blockID = b], Index(b, "a"), ioOk)
  /\ UNCHANGED <<store, wr, cancelled, ls>>

\* a call of BlockMeta(blockID, tenantID): a nil meta (0) with an error, or the
\* meta with a nil error
BlockMetaCall ==
  /\ rd.pc = "idle"
  /\ \E b \in BlockIDs, ioOk \in BOOLEAN :
       LET r == [IdleReader EXCEPT !.op = "BlockMeta", !.blockID = b]
           result == BlockMeta(b, "a")
       IN rd' = IF ~ioOk /\ Exists(metaFileName(b, "a"))
                THEN [r EXCEPT !.pc = "done", !.err = "ErrIO", !.fault = TRUE]
                ELSE [r EXCEPT !.pc = "done", !.err = result.err, !.meta = result.meta]
  /\ UNCHANGED <<store, wr, cancelled, ls>>

\* the bytes a range reader opened at offset for length bytes will deliver
rangeOf(bytes, offset, length) ==
  SubSeq(bytes, offset + 1, IF offset + length < Len(bytes) THEN offset + length ELSE Len(bytes))

\* Object(blockID, tenantID, start, buffer) up to the loop of readRange:
\* NewRangeReader fails on a missing object, on an offset past the end of the
\* object or on a failing store.  A caller's buffer of K bytes starts as zeroes.
ObjectCall ==
  /\ rd.pc = "idle"
  /\ \E b \in BlockIDs, start \in 0..(MaxLen + 1), K \in 0..MaxLen, ioOk \in BOOLEAN :
       LET name == objectFileName(b, "a")
           r == [IdleReader EXCEPT !.op = "Object", !.blockID = b, !.start = start,
                                   !.buffer = [i \in 1..K |-> 0]]
       IN rd' = IF ~Exists(name) THEN [r EXCEPT !.pc = "done", !.err = "ErrObjectNotExist"]
                ELSE IF start > Len(store[name]) THEN [r EXCEPT !.pc = "done", !.err = "ErrRange"]
                ELSE IF ~ioOk THEN [r EXCEPT !.pc = "done", !.err = "ErrIO", !.fault = TRUE]
                ELSE [r EXCEPT !.pc = "read", !.stream = rangeOf(store[name], start, K)]
  /\ UNCHANGED <<store, wr, cancelled, ls>>

\* r.Read(buffer) of n bytes: the bytes always land at the start of the buffer
readIntoStart(buffer, totalBytes, bytes) ==
  [i \in 1..Len(buffer) |-> IF i <= Len(bytes) THEN bytes[i] ELSE buffer[i]]

\* r.Read(buffer[totalBytes:]) of n bytes: the bytes land behind the totalBytes
\* bytes already read
readInto(buffer, totalBytes, bytes) ==
  [i \in 1..Len(buffer) |->
     IF i > totalBytes /\ i <= totalBytes + Len(bytes) THEN bytes[i - totalBytes] ELSE buffer[i]]

\* the loop of readRange where a read of zero bytes with a nil error does not
\* end it
afterReadNoZeroCheck(r, n, e, room) ==
  IF e = "EOF" THEN [r EXCEPT !.pc = "done"]
  ELSE IF e # "nil" THEN [r EXCEPT !.pc = "done", !.err = e, !.fault = TRUE]
  ELSE [r EXCEPT !.totalBytes = @ + n]

\* the loop of readRange where a read of zero bytes into a slice that has room
\* is returned as an error
afterReadShortIsError(r, n, e, room) ==
  IF e = "EOF" THEN [r EXCEPT !.pc = "done"]
  ELSE IF e # "nil" THEN [r EXCEPT !.pc = "done", !.err = e, !.fault = TRUE]
  ELSE IF n = 0 THEN [r EXCEPT !.pc = "done", !.fault = r.fault \/ (room > 0 /\ r.stream # <<>>),
                               !.err = IF room > 0 THEN "ErrUnexpectedEOF" ELSE @]
  ELSE [r EXCEPT !.totalBytes = @ + n]

\* what the loop of readRange does with the result (n, e) of a read into a
\* slice of room bytes: io.EOF returns nil, another error is returned, zero
\* bytes return nil, otherwise the bytes are counted and the loop goes on
afterRead(r, n, e, room) ==
  IF e = "EOF" THEN [r EXCEPT !.pc = "done"]
  ELSE IF e # "nil" THEN [r EXCEPT !.pc = "done", !.err = e, !.fault = TRUE]
  ELSE IF n = 0 THEN [r EXCEPT !.pc = "done", !.fault = r.fault \/ (room > 0 /\ r.stream # <<>>)]
  ELSE [r EXCEPT !.totalBytes = @ + n]

\* one pass of the loop of readRange: r.Read(buffer[totalBytes:]) delivers n
\* bytes, at most the length of the slice and of what the stream has left, with
\* a nil error, with io.EOF (only together with the last bytes) or with another
\* error.  A read of zero bytes with a nil error while the slice is not empty and
\* the stream has bytes left is a fault of the stream, as is an error; at the
\* end of the stream it is another way of the stream to say it has ended.
ReadStep ==
  /\ rd.pc = "read"
  /\ LET room == Len(rd.buffer) - rd.totalBytes
         most == IF room < Len(rd.stream) THEN room ELSE Len(rd.stream)
     IN \E n \in 0..most, e \in {"nil", "EOF", "ErrIO"} :
          /\ e = "EOF" => n = Len(rd.stream)
          /\ rd' = afterRead([rd EXCEPT !.buffer = readInto(@, rd.totalBytes, SubSeq(rd.stream, 1, n)),
                                        !.stream = SubSeq(@, n + 1, Len(@)),
                                        !.reads = IF @ < MaxLen + 2 THEN @ + 1 ELSE @],
                             n, e, room)
  /\ UNCHANGED <<store, wr, cancelled, ls>>

\* the caller raises its cancellation signal while an operation is running
Cancel ==
  /\ ~cancelled
  /\ \/ \E w \in Writers : wr[w].pc \notin {"idle", "done"}
     \/ ls.pc \notin {"idle", "done"}
     \/ rd.pc \notin {"idle", "done"}
  /\ cancelled' = TRUE
  /\ UNCHANGED <<store, wr, ls, rd>>

Init ==
  /\ store = EmptyStore
  /\ wr = [w \in Writers |-> IdleWriter]
  /\ cancelled = FALSE
  /\ ls = IdleLister
  /\ rd = IdleReader

Next ==
  \/ Cancel
  \/ \E w \in Writers :
    \/ WriteCall(w)
    \/ WriteBloom(w)
    \/ WriteIndex(w)
    \/ WriteSource(w)
    \/ WriteCopy(w)
    \/ WriteMeta(w)
    \/ WriteCloseData(w)

Spec == Init /\ [][Next]_vars

(***************************************************************************)
(* The listing operations over an arbitrary bucket content                 *)
(***************************************************************************)
\* object names a bucket may hold: blocks of tenants a and b (one under a
\* second text form of its id, one with a name that is no id, one nested
\* deeper), an object directly under a tenant and one at the root
ListKeys ==
  {<<"a", "u1", "meta.json">>, <<"a", "u1", "bloom">>, <<"a", "u2", "data">>,
   <<"a", "urn:uuid:u1", "index">>, <<"a", "zz", "bloom">>, <<"a", "u2x">>,
   <<"b", "u2", "sub", "meta.json">>, <<"readme">>}

InitList ==
  /\ \E S \in SUBSET ListKeys : store = [k \in S |-> <<>>]
  /\ wr = [w \in Writers |-> IdleWriter]
  /\ cancelled = FALSE
  /\ ls = IdleLister
  /\ rd = IdleReader

NextList ==
  \/ TenantsCall
  \/ BlocksCall
  \/ TenantsNext
  \/ BlocksNext
  \/ Cancel

SpecList == InitList /\ [][NextList]_vars

(***************************************************************************)
(* The ranged read over an arbitrary payload                               *)
(***************************************************************************)
Bytes == {1, 2}

\* all payloads of at most MaxLen bytes
Payloads == UNION {[1..n -> Bytes] : n \in 0..MaxLen}

\* what the meta.json object of a block may hold: a marshalled meta, or bytes
\* that are no JSON object
MetaContents == {jsonMarshal(v) : v \in Versions} \cup {<<>>, <<1>>, <<123, 1>>, <<1, 2, 125>>}

\* block 1 of tenant a holds a payload and may have a meta.json object, a
\* bloom and an index; block 2 has no object
InitRead ==
  /\ \E P \in Payloads, S \in SUBSET {"bloom", "index"} :
     \E m \in {EmptyStore} \cup {[k \in {metaFileName(1, "a")} |-> M] : M \in MetaContents} :
       LET withData == Commit(m, objectFileName(1, "a"), P)
           withBloom == IF "bloom" \in S THEN Commit(withData, bloomFileName(1, "a"), InBloom(1))
                        ELSE withData
       IN store = IF "index" \in S THEN Commit(withBloom, indexFileName(1, "a"), InIndex(1))
                  ELSE withBloom
  /\ wr = [w \in Writers |-> IdleWriter]
  /\ cancelled = FALSE
  /\ ls = IdleLister
  /\ rd = IdleReader

NextRead ==
  \/ ObjectCall
  \/ ReadStep
  \/ BloomCall
  \/ IndexCall
  \/ BlockMetaCall

SpecRead == InitRead /\ [][NextRead]_vars

(***************************************************************************)
(* One operation, any of them, on a bucket that already holds objects      *)
(***************************************************************************)
\* objects the bucket may hold before the operation: components of blocks of
\* tenant a, an object of a block at the root and an object that is no block's
OldObjects ==
  [k \in {<<"a", "u1", "meta.json">>, <<"a", "u1", "data">>, <<"a", "u2", "bloom">>,
          <<"u1", "index">>, <<"readme">>} |->
     CASE k = <<"a", "u1", "meta.json">> -> jsonMarshal(2)
       [] k = <<"a", "u1", "data">> -> InPayload(2)
       [] k = <<"a", "u2", "bloom">> -> InBloom(2)
       [] k = <<"u1", "index">> -> InIndex(2)
       [] OTHER -> <<>>]

InitAll ==
  /\ \E S \in SUBSET DOMAIN OldObjects : store = [k \in S |-> OldObjects[k]]
  /\ wr = [w \in Writers |-> IdleWriter]
  /\ cancelled = FALSE
  /\ ls = IdleLister
  /\ rd = IdleReader

\* no operation has been called yet
Quiet == (\A w \in Writers : wr[w].pc = "idle") /\ ls.pc = "idle" /\ rd.pc = "idle"

NextAll ==
  \/ /\ Quiet
     /\ \/ \E w \in Writers : WriteCall(w)
        \/ TenantsCall
        \/ BlocksCall
        \/ ObjectCall
        \/ BloomCall
        \/ IndexCall
        \/ BlockMetaCall
  \/ Cancel
  \/ \E w \in Writers :
    \/ WriteBloom(w)
    \/ WriteIndex(w)
    \/ WriteSource(w)
    \/ WriteCopy(w)
    \/ WriteMeta(w)
    \/ WriteCloseData(w)
  \/ TenantsNext
  \/ BlocksNext
  \/ ReadStep

SpecAll == InitAll /\ [][NextAll]_vars

\* the loop of a running call keeps taking its next pass
FairSpecList == SpecList /\ WF_vars(TenantsNext) /\ WF_vars(BlocksNext)
(***************************************************************************)
(* Properties of Write                                                     *)
(***************************************************************************)
Started(w) == wr[w].pc # "idle"

Returned(w) == wr[w].pc = "done"

Components == {"bloom", "index", "data", "meta"}

\* the object name of one component of the block writer w writes
KeyOf(w, comp) ==
  CASE comp = "bloom" -> bloomFileName(wr[w].blockID, wr[w].tenantID)
    [] comp = "index" -> indexFileName(wr[w].blockID, wr[w].tenantID)
    [] comp = "data" -> objectFileName(wr[w].blockID, wr[w].tenantID)
    [] comp = "meta" -> metaFileName(wr[w].blockID, wr[w].tenantID)

\* the complete bytes writer w was given for one component
InputOf(w, comp) ==
  CASE comp = "bloom" -> wr[w].bBloom
    [] comp = "index" -> wr[w].bIndex
    [] comp = "data" -> wr[w].payload
    [] comp = "meta" -> jsonMarshal(wr[w].meta)

\* no other call writes under the same root
SoleWriter(w) ==
  \A x \in Writers \ {w} :
    Started(x) => rootPath(wr[x].blockID, wr[x].tenantID) # rootPath(wr[w].blockID, wr[w].tenantID)

\* the bucket holds, under the component's name, the bytes w was given
Holds(w, comp) == Exists(KeyOf(w, comp)) /\ store[KeyOf(w, comp)] = InputOf(w, comp)

\* C1: whenever a call has committed its meta object, the block's bloom, index
\* and data objects are in the bucket (with the bytes of that call when no other
\* call writes the same block): meta is committed after the other three.
C1_MetaLast ==
  \A w \in Writers :
    (Started(w) /\ "meta" \in wr[w].committed) =>
      \A comp \in {"bloom", "index", "data"} :
        /\ Exists(KeyOf(w, comp))
        /\ SoleWriter(w) => Holds(w, comp)

\* C2: once a Write that is alone on its block has returned nil, Bloom, Index
\* and BlockMeta return the bytes and the meta it was given, and the data object
\* a full-range Object read is served from holds its payload.
C2_RoundTrip ==
  \A w \in Writers :
    (Returned(w) /\ wr[w].err = "nil" /\ SoleWriter(w)) =>
      /\ Bloom(wr[w].blockID, wr[w].tenantID) = [err |-> "nil", bytes |-> wr[w].bBloom]
      /\ Index(wr[w].blockID, wr[w].tenantID) = [err |-> "nil", bytes |-> wr[w].bIndex]
      /\ BlockMeta(wr[w].blockID, wr[w].tenantID) = [err |-> "nil", meta |-> wr[w].meta]
      /\ Holds(w, "data")

\* C3: a Write whose payload source is missing or cannot be opened returns an
\* error (the source error when steps 1 and 2 returned nil), never opens the
\* data writer and commits neither data nor meta, and the bloom and index it
\* committed are still in the bucket when it returns.
C3_SourceMissing ==
  \A w \in Writers :
    (Returned(w) /\ wr[w].srcState # "ok") =>
      /\ wr[w].err # "nil"
      /\ wr[w].err # "ErrWrite" =>
           wr[w].err = IF wr[w].srcState = "missing" THEN "ErrObjectFileNotFound" ELSE "ErrOpen"
      /\ wr[w].dataW = "none"
      /\ wr[w].committed \subseteq {"bloom", "index"}
      /\ \A comp \in wr[w].committed : Exists(KeyOf(w, comp))
      /\ SoleWriter(w) =>
           /\ \A comp \in wr[w].committed : Holds(w, comp)
           /\ ~Exists(KeyOf(w, "data"))
           /\ ~Exists(KeyOf(w, "meta"))

\* a Write with a missing source has returned the source error and left an
\* orphaned bloom and index
C3_Witness ==
  \E w \in Writers :
    /\ Returned(w)
    /\ wr[w].srcState = "missing"
    /\ wr[w].err = "ErrObjectFileNotFound"
    /\ wr[w].committed = {"bloom", "index"}
    /\ Holds(w, "bloom")
    /\ Holds(w, "index")
    /\ ~Exists(KeyOf(w, "meta"))

\* C4: a Write returns nil only if all four components were committed: a step
\* that fails to persist its component, at the write or at the close, makes the
\* call return that step's error.
C4_NilOnlyIfAllCommitted ==
  \A w \in Writers :
    (Returned(w) /\ wr[w].err = "nil") => wr[w].committed = Components

\* C9: two calls for distinct (tenant, block) pairs write disjoint objects, and
\* once all calls, for pairwise distinct pairs, have returned nil, every block's
\* four components hold the bytes of its own call.
C9_DistinctBlocksIndependent ==
  /\ \A w \in Writers : \A x \in Writers \ {w} :
       (/\ Started(w)
        /\ Started(x)
        /\ <<wr[w].tenantID, wr[w].blockID>> # <<wr[x].tenantID, wr[x].blockID>>)
       => {KeyOf(w, c) : c \in Components} \cap {KeyOf(x, c) : c \in Components} = {}
  /\ (/\ \A w \in Writers : Returned(w) /\ wr[w].err = "nil"
      /\ \A w \in Writers : \A x \in Writers \ {w} :
           <<wr[w].tenantID, wr[w].blockID>> # <<wr[x].tenantID, wr[x].blockID>>)
     => \A w \in Writers : \A c \in Components : Holds(w, c)

\* C11: within one Write the components are committed in the order bloom,
\* index, data, meta, no step begins before the component of the step before it
\* is committed, and the source is checked only after index is committed.
C11_StepOrder ==
  \A w \in Writers :
    /\ wr[w].pc \in {"index", "source", "copy", "meta"} => "bloom" \in wr[w].committed
    /\ wr[w].pc \in {"source", "copy", "meta"} => "index" \in wr[w].committed
    /\ wr[w].dataW # "none" => {"bloom", "index"} \subseteq wr[w].committed
    /\ wr[w].pc = "meta" => "data" \in wr[w].committed
    /\ "index" \in wr[w].committed => "bloom" \in wr[w].committed
    /\ "data" \in wr[w].committed => "index" \in wr[w].committed
    /\ "meta" \in wr[w].committed => "data" \in wr[w].committed

\* the identifiers Blocks(tenantID) returns for the bucket as it is now, from a
\* listing that does not fail
BlocksListed(tenantID) ==
  {uuidParse(trimPrefixSuffix(e.Prefix, <<tenantID>>)).id :
     e \in {x \in Objects(<<tenantID>>) : uuidParse(trimPrefixSuffix(x.Prefix, <<tenantID>>)).ok}}

\* C12: at every point during or after any Write, every identifier Blocks
\* returns for a tenant has its meta.json, bloom, index and data in the bucket.
C12_NoPartialBlock ==
  \A t \in ListTenantIDs : \A id \in BlocksListed(t) :
    /\ Exists(metaFileName(id, t))
    /\ Exists(bloomFileName(id, t))
    /\ Exists(indexFileName(id, t))
    /\ Exists(objectFileName(id, t))

\* C15: after two Writes to the same (tenant, block) have both returned nil,
\* each of the four components holds, whole, the bytes one of the two calls was
\* given for it.
C15_SameBlockWriters ==
  \A w \in Writers : \A x \in Writers \ {w} :
    (/\ Returned(w) /\ wr[w].err = "nil"
     /\ Returned(x) /\ wr[x].err = "nil"
     /\ <<wr[w].tenantID, wr[w].blockID>> = <<wr[x].tenantID, wr[x].blockID>>)
    => \A c \in Components :
         /\ Exists(KeyOf(w, c))
         /\ store[KeyOf(w, c)] \in {InputOf(w, c), InputOf(x, c)}
(***************************************************************************)
(* Properties of Tenants and Blocks                                        *)
(***************************************************************************)
\* the names of the "directories" directly below tenantID + "/"
ChildDirs(tenantID) == {k[2] : k \in {x \in DOMAIN store : Len(x) >= 3 /\ x[1] = tenantID}}

\* the objects directly below tenantID + "/", which the listing reports with an
\* empty Prefix
ChildObjects(tenantID) == {x \in DOMAIN store : Len(x) = 2 /\ x[1] = tenantID}

\* how often id occurs in a sequence of ids
Occurrences(seq, id) == Cardinality({i \in 1..Len(seq) : seq[i] = id})

\* C5: Blocks(tenantID) returns one identifier for every directory directly
\* below tenantID + "/" whose name parses as a block id and nothing else, and its
\* warning is non-nil exactly when a Next failed or a listed entry did not parse
\* (a directory whose name is no id, or an object directly below the tenant).
C5_BlocksResult ==
  (ls.pc = "done" /\ ls.op = "Blocks") =>
    LET valid == {n \in ChildDirs(ls.tenantID) : uuidParse(n).ok}
    IN /\ Len(ls.blocks) = Cardinality(valid)
       /\ \A id \in BlockIDs :
            Occurrences(ls.blocks, id) = Cardinality({n \in valid : uuidParse(n).id = id})
       /\ \A i \in 1..Len(ls.blocks) : ls.blocks[i] \in BlockIDs
       /\ (ls.warning # NoError) <=>
            \/ ls.errs > 0
            \/ ChildDirs(ls.tenantID) \ valid # {}
            \/ ChildObjects(ls.tenantID) # {}

\* Blocks has returned three identifiers and the parse warning for a tenant with
\* three valid entries and one entry that is no block id
C5_Witness ==
  /\ ls.pc = "done"
  /\ ls.op = "Blocks"
  /\ ChildDirs(ls.tenantID) = {"u1", "u2", "urn:uuid:u1", "zz"}
  /\ Len(ls.blocks) = 3
  /\ ls.warning = ParseError("zz")

\* C6: Tenants() returns the first path segment of every "directory" at the root
\* of the bucket, each once, and nothing else; on an empty bucket whose listing
\* does not fail it returns an empty list and a nil warning.
C6_TenantsResult ==
  (ls.pc = "done" /\ ls.op = "Tenants") =>
    LET prefixes == {k[1] : k \in {x \in DOMAIN store : Len(x) >= 2}}
    IN /\ Len(ls.tenants) = Cardinality(prefixes)
       /\ {ls.tenants[i] : i \in 1..Len(ls.tenants)} = prefixes
       /\ (DOMAIN store = {} /\ ls.errs = 0) => (ls.tenants = <<>> /\ ls.warning = NoError)

\* C8: every call of Tenants and of Blocks eventually returns.
C8_ListingReturns == (ls.pc \in {"tenants", "blocks"}) ~> (ls.pc = "done")

\* C10: once the caller has raised its cancellation signal, a running operation
\* makes no further call on the store.
C10_CancellationHonoured == [][cancelled => ls'.calls = ls.calls]_vars

\* the name a listed entry has below the listed prefix: the last segment of its
\* Prefix, nothing for an object
EntryName(attrs) == IF attrs.Prefix = <<>> THEN "" ELSE attrs.Prefix[Len(attrs.Prefix)]

\* an event of the running call that fails: an error of Next, or for Blocks an
\* entry whose name is no text form of a block id
Fails(ev) ==
  \/ ev.n > 0
  \/ ls.op = "Blocks" /\ ~\E id \in BlockIDs : EntryName(ev.attrs) \in UUIDForms(id)

\* the positions of the failing events the running call has seen
Failures == {i \in 1..Len(ls.seen) : Fails(ls.seen[i])}

LastFailure == CHOOSE i \in Failures : \A j \in Failures : j <= i

\* C13: the warning of a Tenants or Blocks call is the error of the last failing
\* event in listing order, whatever came before or after it: the error of Next,
\* or for an entry that did not parse the error that carries the entry's name;
\* it is nil only when no event failed.
C13_LatestWarningWins ==
  ls.warning = IF Failures = {} THEN NoError
               ELSE LET ev == ls.seen[LastFailure]
                    IN IF ev.n > 0 THEN ListError(ev.n) ELSE ParseError(EntryName(ev.attrs))

\* Blocks has returned after a failed Next, then an entry that did not parse,
\* then an entry that parsed: the warning is the parse error with the name
C13_Witness ==
  /\ ls.pc = "done"
  /\ ls.op = "Blocks"
  /\ Len(ls.seen) >= 3
  /\ \E i, j, k \in 1..Len(ls.seen) :
       /\ i < j /\ j < k /\ k = Len(ls.seen)
       /\ ls.seen[i].n > 0
       /\ Fails(ls.seen[j]) /\ ls.seen[j].n = 0
       /\ ~Fails(ls.seen[k])
       /\ ls.warning = ParseError("zz")
(***************************************************************************)
(* Properties of Object                                                    *)
(***************************************************************************)
\* C7: when the payload has the K bytes asked for from the start offset on and
\* the stream delivers them in reads of one or more bytes each, however split,
\* Object returns nil with the buffer equal to that slice of the payload.
C7_RangedRead ==
  LET name == objectFileName(rd.blockID, rd.tenantID)
  IN (/\ rd.pc = "done"
      /\ rd.op = "Object"
      /\ Exists(name)
      /\ ~rd.fault
      /\ rd.start + Len(rd.buffer) <= Len(store[name]))
     => /\ rd.err = "nil"
        /\ rd.buffer = SubSeq(store[name], rd.start + 1, rd.start + Len(rd.buffer))

\* a buffer of two bytes has been filled from offset 1 by two reads of one byte
\* each and the read that ends the loop
C7_Witness ==
  /\ rd.pc = "done"
  /\ ~rd.fault
  /\ rd.start = 1
  /\ Len(rd.buffer) = 2
  /\ rd.reads >= 3
  /\ rd.err = "nil"
  /\ rd.buffer = <<2, 1>>

\* the bytes of the data object from the offset of the call on, and how many of
\* them the reads of the call have delivered
Available == LET P == store[objectFileName(rd.blockID, rd.tenantID)]
             IN SubSeq(P, rd.start + 1, Len(P))

Delivered == Len(rangeOf(store[objectFileName(rd.blockID, rd.tenantID)], rd.start, Len(rd.buffer)))
             - Len(rd.stream)

\* C14: a call of Object whose reader opened and whose reads did not fail with an
\* error other than end-of-data returns nil, also when the data ends or a read
\* delivers zero bytes before the buffer is full: the buffer then starts with the
\* bytes delivered, in order, the positions behind them are as the caller passed
\* them, and with fewer bytes available than the buffer is long and no zero-byte
\* read before the end, the bytes delivered are all the available bytes.
C14_PartialFill ==
  (rd.pc = "done" /\ rd.reads >= 1 /\ rd.err # "ErrIO")
  => /\ rd.err = "nil"
     /\ Delivered <= Len(Available)
     /\ \A i \in 1..Len(rd.buffer) :
          rd.buffer[i] = IF i <= Delivered THEN Available[i] ELSE 0
     /\ (~rd.fault /\ Len(Available) < Len(rd.buffer)) => Delivered = Len(Available)

\* a buffer of three bytes read at offset 1 of a payload of three bytes holds
\* the two available bytes and its last position untouched
C14_Witness ==
  /\ rd.pc = "done"
  /\ rd.reads >= 2
  /\ rd.err = "nil"
  /\ ~rd.fault
  /\ rd.start = 1
  /\ Len(Available) = 2
  /\ rd.buffer = <<Available[1], Available[2], 0>>

\* C18: in the loop of readRange totalBytes never exceeds len(buffer), the
\* buffer keeps its length (no byte lands outside it), and the call returns
\* after at most len(buffer) + 1 reads.
C18_LoopBounded ==
  /\ rd.totalBytes <= Len(rd.buffer)
  /\ rd.reads <= Len(rd.buffer) + 1
  /\ rd.pc = "read" => rd.reads <= Len(rd.buffer)
  /\ rd.pc # "idle" =>
       \E K \in 0..MaxLen : DOMAIN rd.buffer = 1..K

\* a buffer of two bytes was filled by two reads and the call returned at its
\* third read
C18_Witness ==
  /\ rd.pc = "done"
  /\ Len(rd.buffer) = 2
  /\ rd.totalBytes = 2
  /\ rd.reads = 3
(***************************************************************************)
(* Properties of BlockMeta                                                 *)
(***************************************************************************)
\* C16: BlockMeta returns a nil meta with an error when the meta.json object is
\* absent or its bytes are no marshalled meta, the two with different errors, and
\* when the object holds a marshalled meta and the store does not fail, that meta
\* with a nil error.
C16_BlockMetaOutcomes ==
  (rd.pc = "done" /\ rd.op = "BlockMeta") =>
    LET name == <<rd.tenantID, UUIDString(rd.blockID), "meta.json">>
    IN /\ rd.err # "nil" <=> rd.meta = 0
       /\ name \notin DOMAIN store => rd.err = "ErrObjectNotExist"
       /\ name \in DOMAIN store =>
            /\ rd.err # "ErrObjectNotExist"
            /\ (\A v \in Versions : store[name] # jsonMarshal(v)) => rd.err # "nil"
            /\ (~rd.fault /\ \E v \in Versions : store[name] = jsonMarshal(v))
                 => rd.err = "nil" /\ store[name] = jsonMarshal(rd.meta)

\* BlockMeta has reported bytes that are no meta, with an error that is not the
\* error of a missing object
C16_Witness ==
  /\ rd.pc = "done"
  /\ rd.op = "BlockMeta"
  /\ Exists(metaFileName(rd.blockID, rd.tenantID))
  /\ store[metaFileName(rd.blockID, rd.tenantID)] = <<123, 1>>
  /\ ~rd.fault
  /\ rd.err = "ErrUnmarshal"
  /\ rd.meta = 0
(***************************************************************************)
(* Frame properties                                                        *)
(***************************************************************************)
\* the four keys of a block in the persisted layout
\* <tenant-id>/<block-id>/{meta.json, bloom, index, data}
BlockKeys(blockID, tenantID) ==
  {<<tenantID, UUIDString(blockID), c>> : c \in {"meta.json", "bloom", "index", "data"}}

\* the step leaves the object named k as it is, present or not
SameObject(k) ==
  /\ (k \in DOMAIN store) <=> (k \in DOMAIN store')
  /\ k \in DOMAIN store => store'[k] = store[k]

\* C17: no step of Tenants, Blocks, BlockMeta, Bloom, Index or Object changes
\* the bucket, and a step of a Write for (tenantID, blockID) changes no object
\* other than the four of that block.
C17_FrameEffect ==
  [][/\ (ls' # ls \/ rd' # rd) => store' = store
     /\ \A w \in Writers :
          wr'[w] # wr[w] =>
            \A k \in ((DOMAIN store) \cup (DOMAIN store')) \ BlockKeys(wr'[w].blockID, wr'[w].tenantID) :
              SameObject(k)]_vars
====
